---- MODULE Spec2Model ----
(***************************************************************************)
(* Model of the adversarial document scanner of the ML service:            *)
(* ml_service/security/scanner.py (ResumeSecurityScanner, wrap_for_llm)    *)
(* and the two endpoints of ml_service/main.py that use it.                *)
(*                                                                         *)
(* Text is a sequence of code points.  An ASCII code point is written as   *)
(* the one-character string itself, any other one as "U+XXXX".             *)
(***************************************************************************)
EXTENDS Integers, Sequences, FiniteSets, TLC

VARIABLES
    scanner,    \* the fields of one ResumeSecurityScanner object
    outcome,    \* how the last call on `scanner` ended: a return value or a raise
    doc,        \* the document handed to the last scan_pdf call
    text_in,    \* the argument of the first sanitize_text call
    text_out,   \* what the sanitize_text calls made so far returned, in call order
    wrap_in,    \* the argument of wrap_for_llm
    wrap_out,   \* the value returned by wrap_for_llm
    heap,       \* scanner objects of the service process, by object id
    req,        \* the in-flight requests of the service, by request id
    ResumeSecurityScanner,  \* the name of main.py: the class, or None
    unidata_version         \* unicodedata.unidata_version of the interpreter

vars == <<scanner, outcome, doc, text_in, text_out, wrap_in, wrap_out, heap, req,
          ResumeSecurityScanner, unidata_version>>

\* Value of a variable that the specification at hand does not use.
Unused == "unused"

-----------------------------------------------------------------------------
(* Bounds of the model *)

\* longest text handed to sanitize_text on its own
MaxLen == 3

-----------------------------------------------------------------------------
(* Python str operations *)

\* s[i:i+len(t)] == t, with 1-based i
StartsAt(s, i, t) ==
    /\ i + Len(t) - 1 <= Len(s)
    /\ \A k \in 1..Len(t) : s[i + k - 1] = t[k]

\* `t in s` for strings
Contains(s, t) == \E i \in 1..(Len(s) - Len(t) + 1) : StartsAt(s, i, t)

\* `c in s` for a single code point c
HasChar(s, c) == \E i \in 1..Len(s) : s[i] = c

\* s.replace(c, r) for a single code point c: every occurrence is replaced
RECURSIVE ReplaceChar(_, _, _)
ReplaceChar(s, c, r) ==
    IF s = <<>> THEN <<>>
    ELSE (IF Head(s) = c THEN r ELSE <<Head(s)>>) \o ReplaceChar(Tail(s), c, r)

\* s.replace(c, r, 1): only the first occurrence is replaced
RECURSIVE ReplaceFirstChar(_, _, _)
ReplaceFirstChar(s, c, r) ==
    IF s = <<>> THEN <<>>
    ELSE IF Head(s) = c THEN r \o Tail(s)
    ELSE <<Head(s)>> \o ReplaceFirstChar(Tail(s), c, r)

\* all sequences over S of length at most n
SeqUpTo(S, n) == UNION {[1..k -> S] : k \in 0..n}

-----------------------------------------------------------------------------
(* The scanner object and its flags *)

\* a flag without diagnostic detail
Flag(tag) == [tag |-> tag, detail |-> <<>>]

\* a flag with a suffix, f"{tag}: ...": detail lists the values put into it
FlagWith(tag, detail) == [tag |-> tag, detail |-> detail]

\* ResumeSecurityScanner.__init__
NewScanner ==
    [security_flags          |-> <<>>,
     invisible_text_detected |-> FALSE,
     homoglyphs_detected     |-> FALSE,
     metadata_mismatch       |-> FALSE]

ZERO_WIDTH_CHARS == <<"U+200B", "U+200C", "U+200D", "U+2060", "U+FEFF">>

\* the Cyrillic-to-Latin table, in the dict's insertion order
HOMOGLYPHS ==
    << <<"U+0430", "a">>, <<"U+0435", "e">>, <<"U+043E", "o">>, <<"U+0440", "p">>,
       <<"U+0441", "c">>, <<"U+0443", "y">>, <<"U+0445", "x">>, <<"U+0410", "A">>,
       <<"U+0412", "B">>, <<"U+0415", "E">>, <<"U+041A", "K">>, <<"U+041C", "M">>,
       <<"U+041D", "H">>, <<"U+041E", "O">>, <<"U+0420", "P">>, <<"U+0421", "C">>,
       <<"U+0422", "T">>, <<"U+0425", "X">> >>

-----------------------------------------------------------------------------
(* unicodedata.normalize on the code points of the model                   *)

\* canonical combining class; U+0307 and U+0308 are the model's combining marks
CombiningClass(c) == IF c \in {"U+0307", "U+0308"} THEN 230 ELSE 0

\* the versions of the Unicode database the interpreter can carry: 14.0.0 in
\* Python 3.11, 15.0.0 in Python 3.12; the source names no interpreter
UnidataVersions == {"14.0.0", "15.0.0"}

\* the code points of the model that have a compatibility decomposition in
\* Unicode 14.0
Decomposable ==
    {
      "U+00A0", "U+00C4", "U+00CB", "U+00CF", "U+00D6", "U+00DC", "U+00E4", "U+00EB",
      "U+00EF", "U+00F6", "U+00FC", "U+00FF", "U+010A", "U+010B", "U+0116", "U+0117",
      "U+0120", "U+0121", "U+0130", "U+0178", "U+017B", "U+017C", "U+017F", "U+0226",
      "U+0227", "U+022E", "U+022F", "U+0401", "U+0451", "U+04D2", "U+04D3", "U+04E6",
      "U+04E7", "U+04F1", "U+1E02", "U+1E03", "U+1E0A", "U+1E0B", "U+1E1E", "U+1E1F",
      "U+1E22", "U+1E23", "U+1E26", "U+1E27", "U+1E40", "U+1E41", "U+1E44", "U+1E45",
      "U+1E56", "U+1E57", "U+1E58", "U+1E59", "U+1E60", "U+1E61", "U+1E6A", "U+1E6B",
      "U+1E84", "U+1E85", "U+1E86", "U+1E87", "U+1E8A", "U+1E8B", "U+1E8C", "U+1E8D",
      "U+1E8E", "U+1E8F", "U+1E97", "U+1E9B", "U+212A", "U+FB01", "U+FF21", "U+FF41" }

\* full compatibility decomposition of one code point; U+1E030, the modifier
\* letter Cyrillic small a, is unassigned in Unicode 14.0 and decomposes to
\* U+0430 from Unicode 15.0 on
Decomposition(c) ==
    IF c \notin Decomposable
    THEN IF c = "U+1E030" /\ unidata_version # "14.0.0" THEN <<"U+0430">> ELSE <<c>>
    ELSE
    CASE c = "U+00A0" -> <<" ">>
      [] c = "U+00C4" -> <<"A", "U+0308">>
      [] c = "U+00CB" -> <<"E", "U+0308">>
      [] c = "U+00CF" -> <<"I", "U+0308">>
      [] c = "U+00D6" -> <<"O", "U+0308">>
      [] c = "U+00DC" -> <<"U", "U+0308">>
      [] c = "U+00E4" -> <<"a", "U+0308">>
      [] c = "U+00EB" -> <<"e", "U+0308">>
      [] c = "U+00EF" -> <<"i", "U+0308">>
      [] c = "U+00F6" -> <<"o", "U+0308">>
      [] c = "U+00FC" -> <<"u", "U+0308">>
      [] c = "U+00FF" -> <<"y", "U+0308">>
      [] c = "U+010A" -> <<"C", "U+0307">>
      [] c = "U+010B" -> <<"c", "U+0307">>
      [] c = "U+0116" -> <<"E", "U+0307">>
      [] c = "U+0117" -> <<"e", "U+0307">>
      [] c = "U+0120" -> <<"G", "U+0307">>
      [] c = "U+0121" -> <<"g", "U+0307">>
      [] c = "U+0130" -> <<"I", "U+0307">>
      [] c = "U+0178" -> <<"Y", "U+0308">>
      [] c = "U+017B" -> <<"Z", "U+0307">>
      [] c = "U+017C" -> <<"z", "U+0307">>
      [] c = "U+017F" -> <<"s">>
      [] c = "U+0226" -> <<"A", "U+0307">>
      [] c = "U+0227" -> <<"a", "U+0307">>
      [] c = "U+022E" -> <<"O", "U+0307">>
      [] c = "U+022F" -> <<"o", "U+0307">>
      [] c = "U+0401" -> <<"U+0415", "U+0308">>
      [] c = "U+0451" -> <<"U+0435", "U+0308">>
      [] c = "U+04D2" -> <<"U+0410", "U+0308">>
      [] c = "U+04D3" -> <<"U+0430", "U+0308">>
      [] c = "U+04E6" -> <<"U+041E", "U+0308">>
      [] c = "U+04E7" -> <<"U+043E", "U+0308">>
      [] c = "U+04F1" -> <<"U+0443", "U+0308">>
      [] c = "U+1E02" -> <<"B", "U+0307">>
      [] c = "U+1E03" -> <<"b", "U+0307">>
      [] c = "U+1E0A" -> <<"D", "U+0307">>
      [] c = "U+1E0B" -> <<"d", "U+0307">>
      [] c = "U+1E1E" -> <<"F", "U+0307">>
      [] c = "U+1E1F" -> <<"f", "U+0307">>
      [] c = "U+1E22" -> <<"H", "U+0307">>
      [] c = "U+1E23" -> <<"h", "U+0307">>
      [] c = "U+1E26" -> <<"H", "U+0308">>
      [] c = "U+1E27" -> <<"h", "U+0308">>
      [] c = "U+1E40" -> <<"M", "U+0307">>
      [] c = "U+1E41" -> <<"m", "U+0307">>
      [] c = "U+1E44" -> <<"N", "U+0307">>
      [] c = "U+1E45" -> <<"n", "U+0307">>
      [] c = "U+1E56" -> <<"P", "U+0307">>
      [] c = "U+1E57" -> <<"p", "U+0307">>
      [] c = "U+1E58" -> <<"R", "U+0307">>
      [] c = "U+1E59" -> <<"r", "U+0307">>
      [] c = "U+1E60" -> <<"S", "U+0307">>
      [] c = "U+1E61" -> <<"s", "U+0307">>
      [] c = "U+1E6A" -> <<"T", "U+0307">>
      [] c = "U+1E6B" -> <<"t", "U+0307">>
      [] c = "U+1E84" -> <<"W", "U+0308">>
      [] c = "U+1E85" -> <<"w", "U+0308">>
      [] c = "U+1E86" -> <<"W", "U+0307">>
      [] c = "U+1E87" -> <<"w", "U+0307">>
      [] c = "U+1E8A" -> <<"X", "U+0307">>
      [] c = "U+1E8B" -> <<"x", "U+0307">>
      [] c = "U+1E8C" -> <<"X", "U+0308">>
      [] c = "U+1E8D" -> <<"x", "U+0308">>
      [] c = "U+1E8E" -> <<"Y", "U+0307">>
      [] c = "U+1E8F" -> <<"y", "U+0307">>
      [] c = "U+1E97" -> <<"t", "U+0308">>
      [] c = "U+1E9B" -> <<"s", "U+0307">>
      [] c = "U+212A" -> <<"K">>
      [] c = "U+FB01" -> <<"f", "i">>
      [] c = "U+FF21" -> <<"A">>
      [] c = "U+FF41" -> <<"a">>

\* unicodedata.normalize('NFKD', text); all marks of the model have one
\* combining class, so canonical reordering moves nothing
RECURSIVE NFKD(_)
NFKD(text) ==
    IF text = <<>> THEN <<>> ELSE Decomposition(Head(text)) \o NFKD(Tail(text))

\* the starters of the model that compose with U+0307, the combining dot above
ComposesWithDotAbove ==
    {
      "C", "c", "E", "e", "G", "g", "I", "Z",
      "z", "A", "a", "O", "o", "B", "b", "D",
      "d", "F", "f", "H", "h", "M", "m", "N",
      "n", "P", "p", "R", "r", "S", "s", "T",
      "t", "W", "w", "X", "x", "Y", "y", "U+017F" }

\* the primary composite of the starter s and a following U+0307, "" if none
ComposeDotAbove(s) ==
    IF s \notin ComposesWithDotAbove THEN ""
    ELSE
    CASE s = "C" -> "U+010A"
      [] s = "c" -> "U+010B"
      [] s = "E" -> "U+0116"
      [] s = "e" -> "U+0117"
      [] s = "G" -> "U+0120"
      [] s = "g" -> "U+0121"
      [] s = "I" -> "U+0130"
      [] s = "Z" -> "U+017B"
      [] s = "z" -> "U+017C"
      [] s = "A" -> "U+0226"
      [] s = "a" -> "U+0227"
      [] s = "O" -> "U+022E"
      [] s = "o" -> "U+022F"
      [] s = "B" -> "U+1E02"
      [] s = "b" -> "U+1E03"
      [] s = "D" -> "U+1E0A"
      [] s = "d" -> "U+1E0B"
      [] s = "F" -> "U+1E1E"
      [] s = "f" -> "U+1E1F"
      [] s = "H" -> "U+1E22"
      [] s = "h" -> "U+1E23"
      [] s = "M" -> "U+1E40"
      [] s = "m" -> "U+1E41"
      [] s = "N" -> "U+1E44"
      [] s = "n" -> "U+1E45"
      [] s = "P" -> "U+1E56"
      [] s = "p" -> "U+1E57"
      [] s = "R" -> "U+1E58"
      [] s = "r" -> "U+1E59"
      [] s = "S" -> "U+1E60"
      [] s = "s" -> "U+1E61"
      [] s = "T" -> "U+1E6A"
      [] s = "t" -> "U+1E6B"
      [] s = "W" -> "U+1E86"
      [] s = "w" -> "U+1E87"
      [] s = "X" -> "U+1E8A"
      [] s = "x" -> "U+1E8B"
      [] s = "Y" -> "U+1E8E"
      [] s = "y" -> "U+1E8F"
      [] s = "U+017F" -> "U+1E9B"

\* the starters of the model that compose with U+0308, the combining diaeresis
ComposesWithDiaeresis ==
    {
      "A", "E", "I", "O", "U", "a", "e", "i",
      "o", "u", "y", "Y", "U+0415", "U+0435", "U+0410", "U+0430",
      "U+041E", "U+043E", "U+0443", "H", "h", "W", "w", "X",
      "x", "t" }

\* the primary composite of the starter s and a following U+0308, "" if none
ComposeDiaeresis(s) ==
    IF s \notin ComposesWithDiaeresis THEN ""
    ELSE
    CASE s = "A" -> "U+00C4"
      [] s = "E" -> "U+00CB"
      [] s = "I" -> "U+00CF"
      [] s = "O" -> "U+00D6"
      [] s = "U" -> "U+00DC"
      [] s = "a" -> "U+00E4"
      [] s = "e" -> "U+00EB"
      [] s = "i" -> "U+00EF"
      [] s = "o" -> "U+00F6"
      [] s = "u" -> "U+00FC"
      [] s = "y" -> "U+00FF"
      [] s = "Y" -> "U+0178"
      [] s = "U+0415" -> "U+0401"
      [] s = "U+0435" -> "U+0451"
      [] s = "U+0410" -> "U+04D2"
      [] s = "U+0430" -> "U+04D3"
      [] s = "U+041E" -> "U+04E6"
      [] s = "U+043E" -> "U+04E7"
      [] s = "U+0443" -> "U+04F1"
      [] s = "H" -> "U+1E26"
      [] s = "h" -> "U+1E27"
      [] s = "W" -> "U+1E84"
      [] s = "w" -> "U+1E85"
      [] s = "X" -> "U+1E8C"
      [] s = "x" -> "U+1E8D"
      [] s = "t" -> "U+1E97"

\* the primary composite of a starter and a following code point, "" if none
Composite(s, c) ==
    CASE c = "U+0307" -> ComposeDotAbove(s)
      [] c = "U+0308" -> ComposeDiaeresis(s)
      [] OTHER -> ""

\* canonical composition: out is the text composed so far, sp the position of
\* its last starter (0 if none), lastcc the class of the last code point kept
RECURSIVE ComposeFrom(_, _, _, _)
ComposeFrom(rest, out, sp, lastcc) ==
    IF rest = <<>> THEN out
    ELSE LET c       == Head(rest)
             cc      == CombiningClass(c)
             blocked == sp # Len(out) /\ lastcc >= cc
             Compose(comp) ==
                 IF comp # ""
                 THEN ComposeFrom(Tail(rest), [out EXCEPT ![sp] = comp], sp, lastcc)
                 ELSE ComposeFrom(Tail(rest), Append(out, c),
                                  IF cc = 0 THEN Len(out) + 1 ELSE sp, cc)
         IN  Compose(IF sp > 0 /\ ~blocked THEN Composite(out[sp], c) ELSE "")

\* unicodedata.normalize('NFKC', text)
NFKC(text) == ComposeFrom(NFKD(text), <<>>, 0, 0)

-----------------------------------------------------------------------------
(* ResumeSecurityScanner.sanitize_text *)

\* text.replace(char, '', 1): only the first occurrence goes
RemoveFirstZeroWidth(text, char) == ReplaceFirstChar(text, char, <<>>)

\* text.replace(char, '') of the zero-width loop
RemoveZeroWidth(text, char) == ReplaceChar(text, char, <<>>)

\* the zero-width loop from its k-th code point on; st = [self, text]
RECURSIVE StripZeroWidth(_, _)
StripZeroWidth(st, k) ==
    IF k > Len(ZERO_WIDTH_CHARS) THEN st
    ELSE LET char == ZERO_WIDTH_CHARS[k] IN
         StripZeroWidth(
            IF HasChar(st.text, char)
            THEN [self |-> [st.self EXCEPT !.security_flags =
                                Append(@, Flag("ZERO_WIDTH_CHARS_FOUND"))],
                  text |-> RemoveZeroWidth(st.text, char)]
            ELSE st,
            k + 1)

\* the homoglyph loop from its k-th table entry on; st = [self, text]
RECURSIVE ReplaceHomoglyphs(_, _)
ReplaceHomoglyphs(st, k) ==
    IF k > Len(HOMOGLYPHS) THEN st
    ELSE LET cyrillic == HOMOGLYPHS[k][1]
             latin    == HOMOGLYPHS[k][2]
         IN  ReplaceHomoglyphs(
                IF HasChar(st.text, cyrillic)
                THEN [self |-> [st.self EXCEPT
                                  !.homoglyphs_detected = TRUE,
                                  !.security_flags = Append(@, Flag("HOMOGLYPHS_DETECTED"))],
                      text |-> ReplaceChar(st.text, cyrillic, <<latin>>)]
                ELSE st,
                k + 1)

\* the normalization step of sanitize_text
Normalize(text) == NFKC(text)

\* sanitize_text with the homoglyph loop run ahead of the zero-width loop
sanitize_text_homoglyphs_first(self, text) ==
    LET Normalized(st) == [self |-> st.self, text |-> Normalize(st.text)]
    IN  Normalized(StripZeroWidth(ReplaceHomoglyphs([self |-> self, text |-> text], 1), 1))

\* sanitize_text(self, text): the scanner afterwards and the text returned
sanitize_text(self, text) ==
    LET Normalized(st) == [self |-> st.self, text |-> Normalize(st.text)]
    IN  Normalized(ReplaceHomoglyphs(StripZeroWidth([self |-> self, text |-> text], 1), 1))

-----------------------------------------------------------------------------
(* sanitize_text called on its own, twice in a row, on one scanner          *)

\* code points of the texts handed to sanitize_text
SanAlphabet ==
    {"a", "U+0430", "U+043E", "U+0415", "U+0451", "U+0308", "U+0130", "U+FB01",
     "U+1E030", "U+200B", "U+200C", "U+200D", "U+2060", "U+FEFF"}

InitSanitize ==
    /\ scanner = NewScanner
    /\ text_in \in SeqUpTo(SanAlphabet, MaxLen)
    /\ text_out = <<>>
    /\ unidata_version \in UnidataVersions
    /\ outcome = Unused /\ doc = Unused
    /\ wrap_in = Unused /\ wrap_out = Unused
    /\ heap = Unused /\ req = Unused /\ ResumeSecurityScanner = Unused

\* one sanitize_text call on the scanner: the text returned and the flag list
\* of the scanner at the return
SanitizeCall(text) ==
    LET r == sanitize_text(scanner, text) IN
    /\ scanner' = r.self
    /\ text_out' = Append(text_out, [text  |-> r.text,
                                     flags |-> r.self.security_flags])
    /\ UNCHANGED <<outcome, doc, text_in, wrap_in, wrap_out, heap, req, ResumeSecurityScanner, unidata_version>>

\* scanner.sanitize_text(T)
SanitizeFirst ==
    /\ Len(text_out) = 0
    /\ SanitizeCall(text_in)

\* scanner.sanitize_text(<the text the first call returned>)
SanitizeAgain ==
    /\ Len(text_out) = 1
    /\ SanitizeCall(text_out[1].text)

NextSanitize == SanitizeFirst \/ SanitizeAgain

SpecSanitize == InitSanitize /\ [][NextSanitize]_vars

\* C5 as stated: sanitize_text is idempotent: for every text, called on the
\* text it returned, it returns that text unchanged and appends no flag to
\* the scanner's list.
C5_SanitizeIdempotent ==
    Len(text_out) = 2 =>
        /\ text_out[2].text = text_out[1].text
        /\ text_out[2].flags = text_out[1].flags

\* C6: for each of the five zero-width code points C and every text T, the
\* text sanitize_text returns for T + C holds no occurrence of C.
C6_ZeroWidthRemoved ==
    \A i \in 1..Len(ZERO_WIDTH_CHARS) :
        (/\ Len(text_out) >= 1
         /\ text_in # <<>>
         /\ text_in[Len(text_in)] = ZERO_WIDTH_CHARS[i])
        => ~HasChar(text_out[1].text, ZERO_WIDTH_CHARS[i])

\* sanitize_text has returned for a text T + C in which T holds C as well
C6_Witness ==
    /\ Len(text_out) = 1
    /\ text_in = <<"U+FEFF", "a", "U+FEFF">>
    /\ text_out[1].text = <<"a">>

-----------------------------------------------------------------------------
(* str.lower and case-insensitive matching on the code points of the model *)

\* the code points of the model that str.lower changes
Cased ==
    {
      "A", "B", "C", "D", "E", "F", "G", "H",
      "I", "J", "K", "L", "M", "N", "O", "P",
      "Q", "R", "S", "T", "U", "V", "W", "X",
      "Y", "Z", "U+00C4", "U+00CB", "U+00CF", "U+00D6", "U+00DC", "U+010A",
      "U+0116", "U+0120", "U+0130", "U+0178", "U+017B", "U+0226", "U+022E", "U+0401",
      "U+0410", "U+0412", "U+0415", "U+041A", "U+041C", "U+041D", "U+041E", "U+0420",
      "U+0421", "U+0422", "U+0425", "U+04D2", "U+04E6", "U+1E02", "U+1E0A", "U+1E1E",
      "U+1E22", "U+1E26", "U+1E40", "U+1E44", "U+1E56", "U+1E58", "U+1E60", "U+1E6A",
      "U+1E84", "U+1E86", "U+1E8A", "U+1E8C", "U+1E8E", "U+212A", "U+FF21" }

\* str.lower of one code point
LowerChar(c) ==
    IF c \notin Cased THEN <<c>>
    ELSE
    CASE c = "A" -> <<"a">>
      [] c = "B" -> <<"b">>
      [] c = "C" -> <<"c">>
      [] c = "D" -> <<"d">>
      [] c = "E" -> <<"e">>
      [] c = "F" -> <<"f">>
      [] c = "G" -> <<"g">>
      [] c = "H" -> <<"h">>
      [] c = "I" -> <<"i">>
      [] c = "J" -> <<"j">>
      [] c = "K" -> <<"k">>
      [] c = "L" -> <<"l">>
      [] c = "M" -> <<"m">>
      [] c = "N" -> <<"n">>
      [] c = "O" -> <<"o">>
      [] c = "P" -> <<"p">>
      [] c = "Q" -> <<"q">>
      [] c = "R" -> <<"r">>
      [] c = "S" -> <<"s">>
      [] c = "T" -> <<"t">>
      [] c = "U" -> <<"u">>
      [] c = "V" -> <<"v">>
      [] c = "W" -> <<"w">>
      [] c = "X" -> <<"x">>
      [] c = "Y" -> <<"y">>
      [] c = "Z" -> <<"z">>
      [] c = "U+00C4" -> <<"U+00E4">>
      [] c = "U+00CB" -> <<"U+00EB">>
      [] c = "U+00CF" -> <<"U+00EF">>
      [] c = "U+00D6" -> <<"U+00F6">>
      [] c = "U+00DC" -> <<"U+00FC">>
      [] c = "U+010A" -> <<"U+010B">>
      [] c = "U+0116" -> <<"U+0117">>
      [] c = "U+0120" -> <<"U+0121">>
      [] c = "U+0130" -> <<"i", "U+0307">>
      [] c = "U+0178" -> <<"U+00FF">>
      [] c = "U+017B" -> <<"U+017C">>
      [] c = "U+0226" -> <<"U+0227">>
      [] c = "U+022E" -> <<"U+022F">>
      [] c = "U+0401" -> <<"U+0451">>
      [] c = "U+0410" -> <<"U+0430">>
      [] c = "U+0412" -> <<"U+0432">>
      [] c = "U+0415" -> <<"U+0435">>
      [] c = "U+041A" -> <<"U+043A">>
      [] c = "U+041C" -> <<"U+043C">>
      [] c = "U+041D" -> <<"U+043D">>
      [] c = "U+041E" -> <<"U+043E">>
      [] c = "U+0420" -> <<"U+0440">>
      [] c = "U+0421" -> <<"U+0441">>
      [] c = "U+0422" -> <<"U+0442">>
      [] c = "U+0425" -> <<"U+0445">>
      [] c = "U+04D2" -> <<"U+04D3">>
      [] c = "U+04E6" -> <<"U+04E7">>
      [] c = "U+1E02" -> <<"U+1E03">>
      [] c = "U+1E0A" -> <<"U+1E0B">>
      [] c = "U+1E1E" -> <<"U+1E1F">>
      [] c = "U+1E22" -> <<"U+1E23">>
      [] c = "U+1E26" -> <<"U+1E27">>
      [] c = "U+1E40" -> <<"U+1E41">>
      [] c = "U+1E44" -> <<"U+1E45">>
      [] c = "U+1E56" -> <<"U+1E57">>
      [] c = "U+1E58" -> <<"U+1E59">>
      [] c = "U+1E60" -> <<"U+1E61">>
      [] c = "U+1E6A" -> <<"U+1E6B">>
      [] c = "U+1E84" -> <<"U+1E85">>
      [] c = "U+1E86" -> <<"U+1E87">>
      [] c = "U+1E8A" -> <<"U+1E8B">>
      [] c = "U+1E8C" -> <<"U+1E8D">>
      [] c = "U+1E8E" -> <<"U+1E8F">>
      [] c = "U+212A" -> <<"k">>
      [] c = "U+FF21" -> <<"U+FF41">>

\* s.lower()
RECURSIVE Lower(_)
Lower(s) == IF s = <<>> THEN <<>> ELSE LowerChar(Head(s)) \o Lower(Tail(s))

\* the code points re.IGNORECASE lets a pattern letter match besides its two
\* ASCII cases: U+017F for s, U+0130 and U+0131 for i, U+212A for k
FoldChar(c) ==
    CASE c = "U+017F" -> "s"
      [] c \in {"U+0130", "U+0131"} -> "i"
      [] c = "U+212A" -> "k"
      [] OTHER -> IF Len(LowerChar(c)) = 1 THEN LowerChar(c)[1] ELSE c

-----------------------------------------------------------------------------
(* wrap_for_llm *)

\* the position of the first ">>>" at or after i that `.*?` can reach from i
\* (no newline on the way), 0 if there is none
RECURSIVE DelimiterEnd(_, _)
DelimiterEnd(s, i) ==
    IF i + 2 > Len(s) THEN 0
    ELSE IF StartsAt(s, i, <<">", ">", ">">>) THEN i
    ELSE IF s[i] = "\n" THEN 0
    ELSE DelimiterEnd(s, i + 1)

\* re.sub(r'<<<.*?>>>', '', s) from position i on
RECURSIVE RemoveDelimitersFrom(_, _)
RemoveDelimitersFrom(s, i) ==
    IF i > Len(s) THEN <<>>
    ELSE LET j == IF StartsAt(s, i, <<"<", "<", "<">>) THEN DelimiterEnd(s, i + 3) ELSE 0
         IN  IF j > 0 THEN RemoveDelimitersFrom(s, j + 3)
             ELSE <<s[i]>> \o RemoveDelimitersFrom(s, i + 1)

RemoveDelimiters(s) == RemoveDelimitersFrom(s, 1)

\* the pattern token matches s at position i, letter case ignored
MatchesIgnoreCase(s, i, token) ==
    /\ i + Len(token) - 1 <= Len(s)
    /\ \A k \in 1..Len(token) : FoldChar(s[i + k - 1]) = FoldChar(token[k])

Blocked == <<"[", "B", "L", "O", "C", "K", "E", "D", "]">>

\* re.sub(<token>, '[BLOCKED]', s) without re.IGNORECASE, from position i on
RECURSIVE BlockTokenExactFrom(_, _, _)
BlockTokenExactFrom(s, token, i) ==
    IF i > Len(s) THEN <<>>
    ELSE IF StartsAt(s, i, token)
    THEN Blocked \o BlockTokenExactFrom(s, token, i + Len(token))
    ELSE <<s[i]>> \o BlockTokenExactFrom(s, token, i + 1)

BlockTokenExact(s, token) == BlockTokenExactFrom(s, token, 1)

\* re.sub(<token>, '[BLOCKED]', s, flags=re.IGNORECASE) from position i on
RECURSIVE BlockTokenFrom(_, _, _)
BlockTokenFrom(s, token, i) ==
    IF i > Len(s) THEN <<>>
    ELSE IF MatchesIgnoreCase(s, i, token)
    THEN Blocked \o BlockTokenFrom(s, token, i + Len(token))
    ELSE <<s[i]>> \o BlockTokenFrom(s, token, i + 1)

BlockToken(s, token) == BlockTokenFrom(s, token, 1)

TokenSystem == <<"[", "S", "Y", "S", "T", "E", "M", "]">>
TokenInst   == <<"[", "I", "N", "S", "T", "]">>

ResumeStart ==
    <<"<", "<", "<", "R", "E", "S", "U", "M", "E", "_", "S", "T", "A", "R", "T", ">", ">", ">">>
ResumeEnd ==
    <<"<", "<", "<", "R", "E", "S", "U", "M", "E", "_", "E", "N", "D", ">", ">", ">">>

wrap_for_llm(resume_text) ==
    LET s1 == RemoveDelimiters(resume_text)
        s2 == BlockToken(s1, TokenSystem)
        s3 == BlockToken(s2, TokenInst)
    IN  ResumeStart \o <<"\n">> \o s3 \o <<"\n">> \o ResumeEnd

-----------------------------------------------------------------------------
(* wrap_for_llm called on a text put together from a few pieces            *)

\* most pieces a text is put together from
MaxChunks == 4

WrapChunks ==
    { <<"<">>, <<"<", "<", "<">>, <<">", ">", ">">>,
      <<"R", "E", "S", "U", "M", "E", "_", "E", "N", "D">>,
      <<"\n">>,
      <<"[", "S", "y", "s", "t", "e", "m", "]">>,
      <<"[", "S", "y">>, <<"s", "t", "e", "m", "]">>,
      <<"<", "<", "<", "x", ">", ">", ">">>,
      <<"[", "i", "n", "U+017F", "t", "]">> }

InitWrap ==
    /\ wrap_in = <<>>
    /\ wrap_out = <<>>
    /\ scanner = Unused /\ outcome = Unused /\ doc = Unused
    /\ text_in = Unused /\ text_out = Unused
    /\ heap = Unused /\ req = Unused /\ ResumeSecurityScanner = Unused
    /\ unidata_version = Unused

\* the caller's text grows by one piece; wrap_in is <<pieces, text>>
WrapExtend ==
    /\ wrap_out = <<>>
    /\ \E c \in WrapChunks :
        /\ (IF wrap_in = <<>> THEN 0 ELSE wrap_in[1]) < MaxChunks
        /\ wrap_in' = IF wrap_in = <<>> THEN <<1, c>>
                      ELSE <<wrap_in[1] + 1, wrap_in[2] \o c>>
    /\ UNCHANGED <<scanner, outcome, doc, text_in, text_out, wrap_out, heap, req, ResumeSecurityScanner, unidata_version>>

\* the text handed to wrap_for_llm
WrapText == IF wrap_in = <<>> THEN <<>> ELSE wrap_in[2]

\* wrap_for_llm(text)
WrapCall ==
    /\ wrap_out = <<>>
    /\ wrap_out' = wrap_for_llm(WrapText)
    /\ UNCHANGED <<scanner, outcome, doc, text_in, text_out, wrap_in, heap, req, ResumeSecurityScanner, unidata_version>>

NextWrap == WrapExtend \/ WrapCall

SpecWrap == InitWrap /\ [][NextWrap]_vars

\* the wrapped text and its part before the closing sentinel
WrapReturned == wrap_out # <<>>
WrapBody == SubSeq(wrap_out, 1, Len(wrap_out) - Len(ResumeEnd))

\* C7: the output of wrap_for_llm ends with <<<RESUME_END>>>, holds that
\* literal nowhere earlier, and holds no [SYSTEM] or [INST] in any letter case.
C7_WrapperInjectionResistance ==
    WrapReturned =>
        /\ StartsAt(wrap_out, Len(wrap_out) - Len(ResumeEnd) + 1, ResumeEnd)
        /\ \A i \in 1..(Len(wrap_out) - Len(ResumeEnd)) : ~StartsAt(wrap_out, i, ResumeEnd)
        /\ ~Contains(Lower(wrap_out), Lower(TokenSystem))
        /\ ~Contains(Lower(wrap_out), Lower(TokenInst))

\* wrap_for_llm has returned for a text that held the closing sentinel and a
\* role token in another letter case, and the text between the sentinels is
\* what is left of it
C7_Witness ==
    /\ WrapReturned
    /\ Contains(WrapText, ResumeEnd)
    /\ Contains(WrapText, <<"[", "S", "y", "s", "t", "e", "m", "]">>)
    /\ Contains(WrapBody, Blocked)

-----------------------------------------------------------------------------
(* Python values and what PyMuPDF yields for a document *)

PyNone == [kind |-> "None"]
PyStr(s) == [kind |-> "str", val |-> s]
\* a dict whose items are the function items
PyDict(items) == [kind |-> "dict", items |-> items]
EmptyDict == PyDict(<<>>)

\* the packed RGB value of white, the literal of _detect_invisible_text
White == 16777215

\* metadata.get(key, "")
DictGet(metadata, key) ==
    IF key \in DOMAIN metadata.items THEN metadata.items[key] ELSE PyStr(<<>>)

\* span.get("color", 0)
SpanColor(span) == IF "color" \in DOMAIN span THEN span.color ELSE 0

\* what a helper hands back: the scanner afterwards, the exception that left
\* the helper ("" if it returned) and the value returned
Returned(self, value) == [self |-> self, exc |-> "", value |-> value]
Raised(self, exc) == [self |-> self, exc |-> exc, value |-> PyNone]

-----------------------------------------------------------------------------
(* ResumeSecurityScanner._check_pdf_structure *)

\* the annotation loop of one page from its k-th annotation on
RECURSIVE CheckAnnots(_, _, _)
CheckAnnots(self, annots, k) ==
    IF k > Len(annots) THEN self
    ELSE CheckAnnots(
            IF "subtype" \in DOMAIN annots[k] /\ annots[k].subtype = "Widget"
            THEN [self EXCEPT !.security_flags =
                     Append(@, Flag("PDF_CONTAINS_FORM_WIDGET"))]
            ELSE self,
            annots, k + 1)

\* the page loop from page k on; st = [self, exc]
RECURSIVE CheckPages(_, _, _)
CheckPages(st, pages, k) ==
    IF k > Len(pages) \/ st.exc # "" THEN st
    ELSE CheckPages(
            IF pages[k].annots_error # ""
            THEN [self |-> st.self, exc |-> pages[k].annots_error]
            ELSE [self |-> CheckAnnots(st.self, pages[k].annots, 1), exc |-> ""],
            pages, k + 1)

\* the body of the try block: the scanner afterwards and the exception raised
CheckStructureBody(self, d) ==
    IF d.open_error # "" THEN [self |-> self, exc |-> d.open_error]
    ELSE LET st == CheckPages([self |-> self, exc |-> ""], d.pages, 1) IN
         IF st.exc # "" THEN st
         ELSE [self |-> IF d.embfile_count > 0
                        THEN [st.self EXCEPT !.security_flags =
                                 Append(@, Flag("PDF_CONTAINS_EMBEDDED_FILES"))]
                        ELSE st.self,
               exc  |-> ""]

\* _check_pdf_structure without its except clause: the exception leaves it
check_pdf_structure_uncaught(self, d) ==
    LET st == CheckStructureBody(self, d) IN
    IF st.exc # "" THEN Raised(st.self, st.exc)
    ELSE Returned(st.self, Len(st.self.security_flags) = 0)

check_pdf_structure(self, d) ==
    LET st == CheckStructureBody(self, d) IN
    IF st.exc # ""
    THEN Returned([st.self EXCEPT !.security_flags =
                      Append(@, FlagWith("PDF_STRUCTURE_ERROR", <<st.exc>>))],
                  FALSE)
    ELSE Returned(st.self, Len(st.self.security_flags) = 0)

-----------------------------------------------------------------------------
(* ResumeSecurityScanner._detect_invisible_text *)

\* `text_color == 0xFFFFFF or text_color == 16777215`
IsWhite(span) == SpanColor(span) = White

\* the span loop without its `break`: every white span of the line is flagged
RECURSIVE ScanSpansNoBreak(_, _, _)
ScanSpansNoBreak(self, spans, k) ==
    IF k > Len(spans) THEN self
    ELSE ScanSpansNoBreak(
            IF IsWhite(spans[k])
            THEN [self EXCEPT !.invisible_text_detected = TRUE,
                              !.security_flags = Append(@, Flag("INVISIBLE_TEXT_DETECTED"))]
            ELSE self,
            spans, k + 1)

\* the span loop of one line from its k-th span on: it ends at the first
\* white span
RECURSIVE ScanSpans(_, _, _)
ScanSpans(self, spans, k) ==
    IF k > Len(spans) THEN self
    ELSE IF IsWhite(spans[k])
    THEN [self EXCEPT !.invisible_text_detected = TRUE,
                      !.security_flags = Append(@, Flag("INVISIBLE_TEXT_DETECTED"))]
    ELSE ScanSpans(self, spans, k + 1)

\* the line loop of one block from its k-th line on; st = [self, exc]
RECURSIVE ScanLines(_, _, _)
ScanLines(st, lines, k) ==
    IF k > Len(lines) \/ st.exc # "" THEN st
    ELSE ScanLines(
            IF "spans" \in DOMAIN lines[k]
            THEN [self |-> ScanSpans(st.self, lines[k].spans, 1), exc |-> ""]
            ELSE [self |-> st.self, exc |-> "KeyError: 'spans'"],
            lines, k + 1)

\* the block loop of one page from its k-th block on
RECURSIVE ScanBlocks(_, _, _)
ScanBlocks(st, blocks, k) ==
    IF k > Len(blocks) \/ st.exc # "" THEN st
    ELSE ScanBlocks(
            IF "lines" \in DOMAIN blocks[k] THEN ScanLines(st, blocks[k].lines, 1) ELSE st,
            blocks, k + 1)

\* the page loop from page k on
RECURSIVE ScanPages(_, _, _)
ScanPages(st, pages, k) ==
    IF k > Len(pages) \/ st.exc # "" THEN st
    ELSE ScanPages(
            IF pages[k].dict_error # ""
            THEN [self |-> st.self, exc |-> pages[k].dict_error]
            ELSE ScanBlocks(st, pages[k].blocks, 1),
            pages, k + 1)

detect_invisible_text(self, d) ==
    IF d.open_error # "" THEN Returned(self, FALSE)
    ELSE LET st == ScanPages([self |-> self, exc |-> ""], d.pages, 1) IN
         IF st.exc # "" THEN Returned(st.self, FALSE)
         ELSE Returned(st.self, st.self.invisible_text_detected)

-----------------------------------------------------------------------------
(* ResumeSecurityScanner._extract_text and _extract_metadata *)

\* text += page.get_text() from page k on; st = [text, exc]
RECURSIVE ExtractPages(_, _, _)
ExtractPages(st, pages, k) ==
    IF k > Len(pages) \/ st.exc # "" THEN st
    ELSE ExtractPages(
            IF pages[k].text_error # ""
            THEN [text |-> st.text, exc |-> pages[k].text_error]
            ELSE [text |-> st.text \o pages[k].text, exc |-> ""],
            pages, k + 1)

extract_text(self, d) ==
    IF d.open_error # "" THEN Returned(self, <<>>)
    ELSE LET st == ExtractPages([text |-> <<>>, exc |-> ""], d.pages, 1) IN
         IF st.exc # "" THEN Returned(self, <<>>) ELSE Returned(self, st.text)

\* `metadata or {}`: None and the empty dict both give {}
extract_metadata(self, d) ==
    IF d.open_error # "" THEN Returned(self, EmptyDict)
    ELSE IF d.metadata.kind = "None" THEN Returned(self, EmptyDict)
    ELSE Returned(self, d.metadata)

-----------------------------------------------------------------------------
(* ResumeSecurityScanner._cross_reference_metadata *)

StrEntryLevel == <<"e", "n", "t", "r", "y", " ", "l", "e", "v", "e", "l">>
StrJunior     == <<"j", "u", "n", "i", "o", "r">>
StrIntern     == <<"i", "n", "t", "e", "r", "n">>
StrSenior     == <<"s", "e", "n", "i", "o", "r">>
StrDirector   == <<"d", "i", "r", "e", "c", "t", "o", "r">>

suspicious_mismatches ==
    << <<StrEntryLevel, StrSenior>>, <<StrJunior, StrSenior>>, <<StrIntern, StrDirector>> >>

NoLower == "'NoneType' object has no attribute 'lower'"

\* `meta_term in title`, the keywords not looked at
MetaTermInTitleOnly(meta_term, title, keywords) == Contains(title, meta_term)

\* `meta_term in title or meta_term in keywords`
MetaTermFound(meta_term, title, keywords) ==
    Contains(title, meta_term) \/ Contains(keywords, meta_term)

\* the loop over the pairs from pair k on
RECURSIVE CrossReferencePairs(_, _, _, _, _)
CrossReferencePairs(self, title, keywords, text_lower, k) ==
    IF k > Len(suspicious_mismatches) THEN self
    ELSE LET meta_term == suspicious_mismatches[k][1]
             text_term == suspicious_mismatches[k][2]
         IN  CrossReferencePairs(
                IF MetaTermFound(meta_term, title, keywords) /\ Contains(text_lower, text_term)
                THEN [self EXCEPT
                        !.metadata_mismatch = TRUE,
                        !.security_flags =
                            Append(@, FlagWith("METADATA_MISMATCH", <<meta_term, text_term>>))]
                ELSE self,
                title, keywords, text_lower, k + 1)

cross_reference_metadata(self, text, metadata) ==
    LET title    == DictGet(metadata, "title")
        keywords == DictGet(metadata, "keywords")
    IN  IF title.kind # "str" \/ keywords.kind # "str" THEN Raised(self, NoLower)
        ELSE LET Result(s) == Returned(s, s.metadata_mismatch)
             IN  Result(CrossReferencePairs(self, Lower(title.val), Lower(keywords.val),
                                            Lower(text), 1))

-----------------------------------------------------------------------------
(* ResumeSecurityScanner.scan_pdf *)

\* the report of the try block, with is_safe taken from the structure check
\* and the invisible-text check alone
ReportFromChecks(self, structure_ok, invisible_text, sanitized_text, metadata) ==
    [is_safe                 |-> structure_ok /\ ~invisible_text,
     security_flags          |-> self.security_flags,
     invisible_text_detected |-> self.invisible_text_detected,
     homoglyphs_detected     |-> self.homoglyphs_detected,
     metadata_mismatch       |-> self.metadata_mismatch,
     sanitized_text          |-> sanitized_text,
     metadata                |-> metadata]

\* the report of the try block
Report(self, structure_ok, invisible_text, sanitized_text, metadata) ==
    [is_safe                 |-> Len(self.security_flags) = 0,
     security_flags          |-> self.security_flags,
     invisible_text_detected |-> self.invisible_text_detected,
     homoglyphs_detected     |-> self.homoglyphs_detected,
     metadata_mismatch       |-> self.metadata_mismatch,
     sanitized_text          |-> sanitized_text,
     metadata                |-> metadata]

\* the body of the try block of scan_pdf: the first exception that leaves a
\* helper ends it
ScanBody(self, d) ==
    LET \* the rest of the block after each helper, given what the helpers
        \* called so far handed back: c the structure check, i the
        \* invisible-text check, t the extraction, s the sanitization, m the
        \* metadata extraction and x the cross-reference
        AfterCrossReference(c, i, s, m, x) ==
            IF x.exc # "" THEN x
            ELSE Returned(x.self, Report(x.self, c.value, i.value, s.text, m.value))
        AfterMetadata(c, i, s, m) ==
            IF m.exc # "" THEN m
            ELSE AfterCrossReference(c, i, s, m,
                    cross_reference_metadata(m.self, s.text, m.value))
        AfterSanitize(c, i, s) ==
            AfterMetadata(c, i, s, extract_metadata(s.self, d))
        AfterExtract(c, i, t) ==
            IF t.exc # "" THEN t
            ELSE AfterSanitize(c, i, sanitize_text(t.self, t.value))
        AfterInvisible(c, i) ==
            IF i.exc # "" THEN i
            ELSE AfterExtract(c, i, extract_text(i.self, d))
        AfterStructure(c) ==
            IF c.exc # "" THEN c
            ELSE AfterInvisible(c, detect_invisible_text(c.self, d))
    IN  AfterStructure(check_pdf_structure(self, d))

\* the except clause of scan_pdf
ErrorReport(self, exc) ==
    LET s == [self EXCEPT !.security_flags = Append(@, FlagWith("PDF_PARSE_ERROR", <<exc>>))]
    IN  Returned(s, [is_safe |-> FALSE, security_flags |-> s.security_flags, error |-> exc])

\* scan_pdf without its except clause
scan_pdf_uncaught(self, d) == ScanBody([self EXCEPT !.security_flags = <<>>], d)

scan_pdf(self, d) ==
    LET Try(b) == IF b.exc # "" THEN ErrorReport(b.self, b.exc) ELSE b
    IN  Try(ScanBody([self EXCEPT !.security_flags = <<>>], d))

-----------------------------------------------------------------------------
(* The documents handed to scan_pdf *)

\* most pages of a document
MaxPages == 2

Span(color) == [color |-> color]
Line(spans) == [spans |-> spans]
TextBlock(lines) == [type |-> 0, lines |-> lines]
ImageBlock == [type |-> 1]

\* what page.get_text("dict") yields for a page: an exception, or the blocks
Layout(blocks) == [dict_error |-> "", blocks |-> blocks]
Layouts ==
    { Layout(<< TextBlock(<< Line(<< [size |-> 11], Span(255), Span(0) >>) >>) >>),
      Layout(<< ImageBlock,
                TextBlock(<< Line(<< Span(0), Span(White), Span(White) >>),
                             Line(<< Span(White) >>) >>) >>),
      Layout(<< TextBlock(<< Line(<< Span(White) >>), [bbox |-> 0] >>) >>),
      [dict_error |-> "cannot load page", blocks |-> <<>>] }

BlackLayout == Layout(<< TextBlock(<< Line(<< Span(0) >>) >>) >>)
WhiteLayout == Layout(<< TextBlock(<< Line(<< Span(0), Span(White) >>) >>) >>)

Page(annots, layout, text) ==
    [annots |-> annots, annots_error |-> "",
     blocks |-> layout.blocks, dict_error |-> layout.dict_error,
     text |-> text, text_error |-> ""]

Doc(pages, embfile_count, metadata) ==
    [exists |-> TRUE, open_error |-> "", pages |-> pages,
     embfile_count |-> embfile_count, metadata |-> metadata]

\* a file fitz.open raises on: a missing, an empty and a corrupt one
Unopenable(exists, open_error) ==
    [exists |-> exists, open_error |-> open_error, pages |-> <<>>,
     embfile_count |-> 0, metadata |-> PyNone]

StrA == <<"a">>
StrSeniorCap == <<"S", "e", "n", "i", "o", "r">>
\* "senior" spelled with a Cyrillic e and a zero-width space inside
StrSeniorHidden == <<"s", "U+0435", "n", "U+200B", "i", "o", "r">>
StrDirectorCap == <<"D", "i", "r", "e", "c", "t", "o", "r">>

\* documents that differ in their rendering data
RenderDocs ==
    { Doc(pages, 0, EmptyDict) :
        pages \in SeqUpTo({Page(<<>>, l, StrA) : l \in Layouts}, MaxPages) }

\* documents that differ in their annotations and attachments
StructPages ==
    { Page(<< [subtype |-> "Widget"], [subtype |-> "Link"], [content |-> ""],
              [subtype |-> "Widget"] >>, BlackLayout, StrA),
      [Page(<<>>, BlackLayout, StrA) EXCEPT !.annots_error = "bad annotation"] }
StructDocs ==
    { Doc(pages, n, EmptyDict) :
        pages \in SeqUpTo(StructPages, MaxPages) \ {<<>>}, n \in {0, 1} }

\* documents that differ in their text and metadata
Titles ==
    { PyNone, PyStr(<<"E", "n", "t", "r", "y", " ", "L", "e", "v", "e", "l">>),
      PyStr(StrJunior \o <<" ">> \o StrIntern \o <<"a", "l">>) }
Keywords ==
    { PyNone, PyStr(StrJunior \o <<" ">> \o StrIntern) }
Metas ==
    {PyNone, EmptyDict}
    \cup {PyDict([k \in {"title"} |-> t]) : t \in Titles}
    \cup {PyDict([k \in {"keywords"} |-> w]) : w \in Keywords}
    \cup {PyDict([title |-> t, keywords |-> w]) : t \in Titles, w \in Keywords}
Texts ==
    { StrA, StrSeniorCap, StrDirectorCap,
      StrSeniorHidden \o <<" ">> \o StrDirectorCap }
TextDocs ==
    { Doc(<< Page(<<>>, BlackLayout, t) >>, 0, m) : t \in Texts, m \in Metas }

\* documents in which several checks fire at once
MixedDocs ==
    { Doc([k \in 1..n |-> Page(<< [subtype |-> "Widget"] >>, l, StrSeniorHidden)], 1, m) :
        n \in 1..MaxPages,
        l \in {WhiteLayout, BlackLayout},
        m \in {PyDict([title |-> PyStr(StrJunior)]), PyDict([title |-> PyNone])} }

\* documents the parser fails on
FaultDocs ==
    { Unopenable(FALSE, "no such file: 'resume.pdf'"),
      Unopenable(TRUE, "Cannot open empty file"),
      Unopenable(TRUE, "Failed to open file 'resume.pdf'"),
      Doc(<< [Page(<<>>, WhiteLayout, StrSeniorCap) EXCEPT !.text_error = "cannot load page"] >>,
          0, PyDict([title |-> PyStr(StrJunior)])) }

Docs == RenderDocs \cup StructDocs \cup TextDocs \cup MixedDocs \cup FaultDocs

-----------------------------------------------------------------------------
(* One scanner object, scanned with again and again *)

NoCall == [kind |-> "none", first |-> FALSE, exc |-> "", value |-> PyNone]

Init ==
    /\ scanner = NewScanner
    /\ outcome = NoCall
    /\ doc = Unopenable(FALSE, "")
    /\ unidata_version \in UnidataVersions
    /\ text_in = Unused /\ text_out = Unused
    /\ wrap_in = Unused /\ wrap_out = Unused
    /\ heap = Unused /\ req = Unused /\ ResumeSecurityScanner = Unused

\* scanner = ResumeSecurityScanner()
Construct ==
    /\ outcome.kind # "none"
    /\ scanner' = NewScanner
    /\ outcome' = NoCall
    /\ doc' = Unopenable(FALSE, "")
    /\ UNCHANGED <<text_in, text_out, wrap_in, wrap_out, heap, req, ResumeSecurityScanner, unidata_version>>

\* scanner.scan_pdf(d); first records whether it is the scanner's first scan
ScanPdf ==
    \E d \in Docs :
        LET Ended(r) ==
                /\ scanner' = r.self
                /\ outcome' = [kind  |-> IF r.exc = "" THEN "return" ELSE "raise",
                               first |-> outcome.kind = "none",
                               exc   |-> r.exc,
                               value |-> r.value]
        IN  /\ Ended(scan_pdf(scanner, d))
            /\ doc' = d
            /\ UNCHANGED <<text_in, text_out, wrap_in, wrap_out, heap, req,
                           ResumeSecurityScanner, unidata_version>>

Next == Construct \/ ScanPdf

Spec == Init /\ [][Next]_vars

-----------------------------------------------------------------------------
(* Claims about scan_pdf *)

Called == outcome.kind # "none"
ReturnedReport == outcome.kind = "return"
NormalPath == ReturnedReport /\ "sanitized_text" \in DOMAIN outcome.value
ErrorPath == ReturnedReport /\ "error" \in DOMAIN outcome.value

\* the flags of the report that carry the tag
FlagsTagged(tag) == SelectSeq(outcome.value.security_flags, LAMBDA f : f.tag = tag)

\* C1: scan_pdf is total: whatever the document, it returns a report that
\* carries is_safe and the flag sequence, and no exception leaves it.
C1_ScanTotal ==
    Called =>
        /\ ReturnedReport
        /\ "is_safe" \in DOMAIN outcome.value
        /\ "security_flags" \in DOMAIN outcome.value

\* a scan in which an exception left a helper and scan_pdf still returned
C1_Witness ==
    /\ ErrorPath
    /\ doc.open_error = ""
    /\ outcome.value.error = NoLower

\* C2: in every report scan_pdf returns, is_safe is true exactly when the
\* report's flag sequence is empty.
C2_SafeIffNoFlags ==
    ReturnedReport =>
        (outcome.value.is_safe <=> Len(outcome.value.security_flags) = 0)

\* a normal-path report of a document with a clean structure and no white
\* span whose only flags come from sanitization
C2_Witness ==
    /\ NormalPath
    /\ ~outcome.value.is_safe
    /\ \A i \in 1..Len(outcome.value.security_flags) :
          outcome.value.security_flags[i].tag
              \in {"ZERO_WIDTH_CHARS_FOUND", "HOMOGLYPHS_DETECTED"}

Reported(r) ==
    [is_safe        |-> r.is_safe,
     security_flags |-> r.security_flags,
     booleans       |-> IF "invisible_text_detected" \in DOMAIN r
                        THEN << r.invisible_text_detected, r.homoglyphs_detected,
                                r.metadata_mismatch >>
                        ELSE <<>>]

\* C4 as stated: after any sequence of scans on one scanner, the report for
\* a document equals the report a freshly constructed scanner returns for it.
C4_NoLeakAcrossScans ==
    ReturnedReport => Reported(outcome.value) = Reported(scan_pdf(NewScanner, doc).value)

\* the metadata field of the document as the cross-reference is to read it:
\* "" when the field, or the whole metadata, is absent
MetaField(d, key) ==
    IF d.open_error # "" \/ d.metadata.kind = "None" THEN <<>>
    ELSE IF key \notin DOMAIN d.metadata.items THEN <<>>
    ELSE d.metadata.items[key].val

\* the pair fires: its metadata term is in the lower-cased title or keywords
\* and its text term in the lower-cased sanitized text
PairFires(k) ==
    /\ \/ Contains(Lower(MetaField(doc, "title")), suspicious_mismatches[k][1])
       \/ Contains(Lower(MetaField(doc, "keywords")), suspicious_mismatches[k][1])
    /\ Contains(Lower(outcome.value.sanitized_text), suspicious_mismatches[k][2])

FiredPairs == SelectSeq([k \in 1..Len(suspicious_mismatches) |-> k], PairFires)

\* C8: the METADATA_MISMATCH flags of a report are, in list order, those of
\* the pairs that fire, each naming both terms, and metadata_mismatch of a
\* fresh scan is true exactly when some pair fires.
C8_MetadataCrossReference ==
    NormalPath =>
        /\ FlagsTagged("METADATA_MISMATCH")
              = [j \in 1..Len(FiredPairs) |->
                    FlagWith("METADATA_MISMATCH", suspicious_mismatches[FiredPairs[j]])]
        /\ outcome.first => (outcome.value.metadata_mismatch <=> Len(FiredPairs) > 0)

\* a fresh scan in which two pairs fire on the keywords alone, the text term
\* having been hidden behind a homoglyph and a zero-width space
C8_Witness ==
    /\ NormalPath
    /\ outcome.first
    /\ Len(FlagsTagged("METADATA_MISMATCH")) = 2
    /\ "title" \notin DOMAIN doc.metadata.items
    /\ outcome.value.metadata_mismatch

\* the rendering data of the document is well formed
WellFormed(d) ==
    /\ d.open_error = ""
    /\ \A p \in 1..Len(d.pages) :
          /\ d.pages[p].dict_error = ""
          /\ \A b \in 1..Len(d.pages[p].blocks) :
                "lines" \in DOMAIN d.pages[p].blocks[b] =>
                    \A l \in 1..Len(d.pages[p].blocks[b].lines) :
                        "spans" \in DOMAIN d.pages[p].blocks[b].lines[l]

\* some span of some page of the document is white
HasWhiteSpan(d) ==
    \E p \in 1..Len(d.pages) : \E b \in 1..Len(d.pages[p].blocks) :
        /\ "lines" \in DOMAIN d.pages[p].blocks[b]
        /\ \E l \in 1..Len(d.pages[p].blocks[b].lines) :
              /\ "spans" \in DOMAIN d.pages[p].blocks[b].lines[l]
              /\ \E s \in 1..Len(d.pages[p].blocks[b].lines[l].spans) :
                    SpanColor(d.pages[p].blocks[b].lines[l].spans[s]) = White

\* scan_result.get("invisible_text_detected", False), as the callers read it
ReportedInvisible ==
    IF "invisible_text_detected" \in DOMAIN outcome.value
    THEN outcome.value.invisible_text_detected ELSE FALSE

\* C9 as stated: for a document with well-formed rendering data the report has
\* invisible_text_detected = true and an INVISIBLE_TEXT_DETECTED flag if some
\* span is white, and invisible_text_detected = false and no such flag if
\* none is.
C9_InvisibleTextDetection ==
    (ReturnedReport /\ WellFormed(doc)) =>
        IF HasWhiteSpan(doc)
        THEN ReportedInvisible /\ Len(FlagsTagged("INVISIBLE_TEXT_DETECTED")) > 0
        ELSE ~ReportedInvisible /\ Len(FlagsTagged("INVISIBLE_TEXT_DETECTED")) = 0

\* the stage of scan_pdf that appends flags of the tag: 1 the structure check,
\* 2 the invisible-text check, 3 and 4 the two loops of sanitization, 5 the
\* metadata cross-reference; 0 for the PDF_PARSE_ERROR of the except clause
StageOf(tag) ==
    CASE tag \in {"PDF_CONTAINS_FORM_WIDGET", "PDF_CONTAINS_EMBEDDED_FILES",
                  "PDF_STRUCTURE_ERROR"}     -> 1
      [] tag = "INVISIBLE_TEXT_DETECTED"     -> 2
      [] tag = "ZERO_WIDTH_CHARS_FOUND"      -> 3
      [] tag = "HOMOGLYPHS_DETECTED"         -> 4
      [] tag = "METADATA_MISMATCH"           -> 5
      [] OTHER                               -> 0

\* the Widget annotations of the document, as <<page, annotation>> positions
WidgetAnnots(d) ==
    UNION { { <<p, a>> : a \in { a \in 1..Len(d.pages[p].annots) :
                                    /\ "subtype" \in DOMAIN d.pages[p].annots[a]
                                    /\ d.pages[p].annots[a].subtype = "Widget" } } :
            p \in 1..Len(d.pages) }

\* the structure check meets no exception on the document
StructureReadable(d) ==
    /\ d.open_error = ""
    /\ \A p \in 1..Len(d.pages) : d.pages[p].annots_error = ""

\* C11: in every report the flags stand in the order of the stages that
\* appended them (structure flags, then INVISIBLE_TEXT_DETECTED, then
\* ZERO_WIDTH_CHARS_FOUND, then HOMOGLYPHS_DETECTED, then METADATA_MISMATCH),
\* and equal flags are kept: a document whose structure can be read gives one
\* PDF_CONTAINS_FORM_WIDGET flag per Widget annotation.
C11_FlagsInStageOrder ==
    ReturnedReport =>
        LET flags == outcome.value.security_flags IN
        /\ \A i, j \in 1..Len(flags) :
              (i < j /\ StageOf(flags[i].tag) > 0 /\ StageOf(flags[j].tag) > 0)
                  => StageOf(flags[i].tag) <= StageOf(flags[j].tag)
        /\ StructureReadable(doc)
              => Len(FlagsTagged("PDF_CONTAINS_FORM_WIDGET")) = Cardinality(WidgetAnnots(doc))

\* a report in which every stage has appended a flag, the structure check
\* and the invisible-text check the same flag twice
C11_Witness ==
    /\ NormalPath
    /\ Len(FlagsTagged("PDF_CONTAINS_FORM_WIDGET")) = 2
    /\ Len(FlagsTagged("PDF_CONTAINS_EMBEDDED_FILES")) = 1
    /\ Len(FlagsTagged("INVISIBLE_TEXT_DETECTED")) = 2
    /\ Len(FlagsTagged("ZERO_WIDTH_CHARS_FOUND")) = 1
    /\ Len(FlagsTagged("HOMOGLYPHS_DETECTED")) = 1
    /\ Len(FlagsTagged("METADATA_MISMATCH")) = 1

\* the lines of the document that hold a white span, as <<page, block, line>>
WhiteLines(d) ==
    UNION { UNION { { <<p, b, l>> :
                        l \in { l \in 1..Len(d.pages[p].blocks[b].lines) :
                                  /\ "spans" \in DOMAIN d.pages[p].blocks[b].lines[l]
                                  /\ \E s \in 1..Len(d.pages[p].blocks[b].lines[l].spans) :
                                        IsWhite(d.pages[p].blocks[b].lines[l].spans[s]) } } :
                    b \in { b \in 1..Len(d.pages[p].blocks) :
                              "lines" \in DOMAIN d.pages[p].blocks[b] } } :
            p \in 1..Len(d.pages) }

\* the pages of the document that hold a white span
WhitePages(d) == { w[1] : w \in WhiteLines(d) }

\* C12 as stated: a page contributes at most one INVISIBLE_TEXT_DETECTED flag
\* however many white spans it holds, so a report has no more of these flags
\* than the document has pages with a white span.
C12_Original ==
    ReturnedReport =>
        Len(FlagsTagged("INVISIBLE_TEXT_DETECTED")) <= Cardinality(WhitePages(doc))

\* C12 as amended: the short-circuit is per line: after a white span the
\* remaining spans of its line are not inspected, while the other lines of
\* the page and the other pages are, so for a document with well-formed
\* rendering data the report has one INVISIBLE_TEXT_DETECTED flag for each
\* line that holds a white span.
C12_PerLineShortCircuit ==
    (ReturnedReport /\ WellFormed(doc)) =>
        Len(FlagsTagged("INVISIBLE_TEXT_DETECTED")) = Cardinality(WhiteLines(doc))

\* a one-page document with two lines that hold a white span, one of them two
\* white spans, has been scanned and reported with two flags
C12_Witness ==
    /\ ReturnedReport
    /\ WellFormed(doc)
    /\ Len(doc.pages) = 1
    /\ Cardinality(WhiteLines(doc)) = 2
    /\ \E w \in WhiteLines(doc) :
          Cardinality({ s \in 1..Len(doc.pages[w[1]].blocks[w[2]].lines[w[3]].spans) :
                          IsWhite(doc.pages[w[1]].blocks[w[2]].lines[w[3]].spans[s]) }) = 2
    /\ Len(FlagsTagged("INVISIBLE_TEXT_DETECTED")) = 2

\* the exception the invisible-text check meets on the document, "" if none
RenderingFailure(d) ==
    IF d.open_error # "" THEN d.open_error
    ELSE ScanPages([self |-> NewScanner, exc |-> ""], d.pages, 1).exc

\* C13 as stated, for the first scan of a scanner: when an exception occurs
\* during the invisible-text check, the report has no INVISIBLE_TEXT_DETECTED
\* flag, invisible_text_detected is false in it, and the exception does not
\* end the scan: the report is not the PDF_PARSE_ERROR report of that
\* exception.
C13_RenderingFailOpen ==
    (ReturnedReport /\ outcome.first /\ RenderingFailure(doc) # "") =>
        /\ Len(FlagsTagged("INVISIBLE_TEXT_DETECTED")) = 0
        /\ ~ReportedInvisible
        /\ ~(ErrorPath /\ outcome.value.error = RenderingFailure(doc))

-----------------------------------------------------------------------------
(* The endpoints /security-scan and /analyze of main.py, several requests  *)
(* in flight at once, in a process whose import of the security module     *)
(* has succeeded or has failed.                                            *)

\* number of requests that can be in flight at once
NumRequests == 2

Requests == 1..NumRequests

\* the documents the requests name
ConcDocs ==
    { Doc(<< Page(<< [subtype |-> "Widget"] >>, WhiteLayout, StrSeniorHidden) >>, 1,
          PyDict([title |-> PyStr(StrJunior)])),
      Doc(<< Page(<<>>, BlackLayout, StrA) >>, 0, PyDict([title |-> PyNone])),
      Unopenable(TRUE, "Cannot open empty file"),
      Unopenable(FALSE, "no such file: 'resume.pdf'") }

\* what `from security.scanner import ResumeSecurityScanner, wrap_for_llm`
\* leaves in the name: the class, or None after an ImportError
ImportOutcomes == {"class", "None"}

\* raise HTTPException(status_code=..., detail=...)
HTTPException(status_code, detail) ==
    [raised |-> "HTTPException", status_code |-> status_code, detail |-> detail]

NoObject == [kind |-> "None"]
Idle == [pc |-> "idle"]

\* `scanner = ResumeSecurityScanner()` of a handler that keeps one scanner
\* for the whole module: the object is made once and every request gets it
SharedScanner(h, r) ==
    [heap |-> IF h[1] = NoObject THEN [h EXCEPT ![1] = NewScanner] ELSE h, ref |-> 1]

\* `scanner = ResumeSecurityScanner()` in a handler: a new object, which the
\* request alone refers to
ConstructScanner(h, r) ==
    [heap |-> [h EXCEPT ![r] = NewScanner], ref |-> r]

\* SecurityScanResponse(...) of security_scan
SecurityScanResponse(result) ==
    [is_safe        |-> result.is_safe,
     security_flags |-> result.security_flags,
     details        |-> result]

\* result.get(key, False)
GetOrFalse(result, key) == IF key \in DOMAIN result THEN result[key] ELSE FALSE

\* SecurityInfo(...) of analyze_resume
SecurityInfo(scan_result) ==
    [is_safe                 |-> scan_result.is_safe,
     flags                   |-> scan_result.security_flags,
     invisible_text_detected |-> GetOrFalse(scan_result, "invisible_text_detected"),
     homoglyphs_detected     |-> GetOrFalse(scan_result, "homoglyphs_detected"),
     metadata_mismatch       |-> GetOrFalse(scan_result, "metadata_mismatch")]

\* what the endpoint answers with, given the report of the scan
Response(endpoint, result) ==
    IF endpoint = "security_scan" THEN SecurityScanResponse(result)
    ELSE SecurityInfo(result)

InitConc ==
    /\ ResumeSecurityScanner \in ImportOutcomes
    /\ unidata_version \in UnidataVersions
    /\ heap = [r \in Requests |-> NoObject]
    /\ req = [r \in Requests |-> Idle]
    /\ scanner = Unused /\ outcome = Unused /\ doc = Unused
    /\ text_in = Unused /\ text_out = Unused
    /\ wrap_in = Unused /\ wrap_out = Unused

ConcUnchanged ==
    UNCHANGED <<scanner, outcome, doc, text_in, text_out, wrap_in, wrap_out,
                ResumeSecurityScanner, unidata_version>>

\* the handler reaches `scanner = ResumeSecurityScanner()`: security_scan
\* unless the name is None, analyze_resume if the name is not None and the
\* file exists
ReachesScan(endpoint, d) ==
    IF endpoint = "security_scan" THEN ResumeSecurityScanner # "None"
    ELSE ResumeSecurityScanner # "None" /\ d.exists

\* what a handler that makes no scanner answers with: security_scan raises,
\* analyze_resume leaves security_info = None
NoScanResponse(endpoint) ==
    IF endpoint = "security_scan"
    THEN HTTPException(500, "Security scanner not available")
    ELSE PyNone

\* a request arrives and its handler runs up to the construction of the scanner
Receive(r) ==
    /\ req[r].pc = "idle"
    /\ \E endpoint \in {"security_scan", "analyze"}, d \in ConcDocs :
          req' = [req EXCEPT ![r] =
                    IF ReachesScan(endpoint, d)
                    THEN [pc |-> "construct", endpoint |-> endpoint, d |-> d]
                    ELSE [pc |-> "responded", endpoint |-> endpoint, d |-> d,
                          response |-> NoScanResponse(endpoint)]]
    /\ UNCHANGED heap
    /\ ConcUnchanged

\* scanner = ResumeSecurityScanner()
ConstructStep(r) ==
    /\ req[r].pc = "construct"
    /\ LET c == ConstructScanner(heap, r) IN
        /\ heap' = c.heap
        /\ req' = [req EXCEPT ![r] =
                     [pc |-> "reset", endpoint |-> req[r].endpoint, d |-> req[r].d,
                      self |-> c.ref]]
    /\ ConcUnchanged

\* scan_pdf: self.security_flags = []
ResetStep(r) ==
    /\ req[r].pc = "reset"
    /\ heap' = [heap EXCEPT ![req[r].self].security_flags = <<>>]
    /\ req' = [req EXCEPT ![r].pc = "structure"]
    /\ ConcUnchanged

\* scan_pdf: structure_ok = self._check_pdf_structure(file_path)
StructureStep(r) ==
    /\ req[r].pc = "structure"
    /\ LET c == check_pdf_structure(heap[req[r].self], req[r].d) IN
        /\ heap' = [heap EXCEPT ![req[r].self] = c.self]
        /\ req' = [req EXCEPT ![r] =
                     [pc |-> "invisible", endpoint |-> req[r].endpoint, d |-> req[r].d,
                      self |-> req[r].self, structure_ok |-> c.value]]
    /\ ConcUnchanged

\* scan_pdf: invisible_text = self._detect_invisible_text(file_path)
InvisibleStep(r) ==
    /\ req[r].pc = "invisible"
    /\ LET i == detect_invisible_text(heap[req[r].self], req[r].d) IN
        /\ heap' = [heap EXCEPT ![req[r].self] = i.self]
        /\ req' = [req EXCEPT ![r] =
                     [pc |-> "sanitize", endpoint |-> req[r].endpoint, d |-> req[r].d,
                      self |-> req[r].self, structure_ok |-> req[r].structure_ok,
                      invisible_text |-> i.value]]
    /\ ConcUnchanged

\* scan_pdf: raw_text = self._extract_text(...); sanitized_text = self.sanitize_text(raw_text)
SanitizeStep(r) ==
    /\ req[r].pc = "sanitize"
    /\ LET t == extract_text(heap[req[r].self], req[r].d)
           s == sanitize_text(t.self, t.value)
       IN
        /\ heap' = [heap EXCEPT ![req[r].self] = s.self]
        /\ req' = [req EXCEPT ![r] =
                     [pc |-> "metadata", endpoint |-> req[r].endpoint, d |-> req[r].d,
                      self |-> req[r].self, structure_ok |-> req[r].structure_ok,
                      invisible_text |-> req[r].invisible_text,
                      sanitized_text |-> s.text]]
    /\ ConcUnchanged

\* scan_pdf: metadata = self._extract_metadata(...);
\* self._cross_reference_metadata(sanitized_text, metadata)
MetadataStep(r) ==
    /\ req[r].pc = "metadata"
    /\ LET m == extract_metadata(heap[req[r].self], req[r].d)
           x == cross_reference_metadata(m.self, req[r].sanitized_text, m.value)
       IN
        /\ heap' = [heap EXCEPT ![req[r].self] = x.self]
        /\ req' = [req EXCEPT ![r] =
                     [pc |-> "return", endpoint |-> req[r].endpoint, d |-> req[r].d,
                      self |-> req[r].self, structure_ok |-> req[r].structure_ok,
                      invisible_text |-> req[r].invisible_text,
                      sanitized_text |-> req[r].sanitized_text,
                      metadata |-> m.value, exc |-> x.exc]]
    /\ ConcUnchanged

\* scan_pdf: the return of the try block, or the except clause; then the
\* handler builds its response from the report
ReturnStep(r) ==
    /\ req[r].pc = "return"
    /\ LET out == IF req[r].exc # ""
                  THEN ErrorReport(heap[req[r].self], req[r].exc)
                  ELSE Returned(heap[req[r].self],
                                Report(heap[req[r].self], req[r].structure_ok,
                                       req[r].invisible_text, req[r].sanitized_text,
                                       req[r].metadata))
       IN
        /\ heap' = [heap EXCEPT ![req[r].self] = out.self]
        /\ req' = [req EXCEPT ![r] =
                     [pc |-> "responded", endpoint |-> req[r].endpoint, d |-> req[r].d,
                      response |-> Response(req[r].endpoint, out.value)]]
    /\ ConcUnchanged

\* some request other than r with a scan under way refers to the object o
ReferencedByOther(r, o) ==
    \E q \in Requests :
        /\ q # r
        /\ req[q].pc \notin {"idle", "construct", "responded"}
        /\ req[q].self = o

\* the handler returns: its local scanner goes out of scope, and the object
\* is freed unless another request still refers to it
Finish(r) ==
    /\ req[r].pc = "responded"
    /\ req' = [req EXCEPT ![r] = Idle]
    /\ heap' = [o \in Requests |->
                  IF o = r /\ ~ReferencedByOther(r, o) THEN NoObject ELSE heap[o]]
    /\ ConcUnchanged

NextConc ==
    \E r \in Requests :
        \/ Receive(r)
        \/ ConstructStep(r)
        \/ ResetStep(r)
        \/ StructureStep(r)
        \/ InvisibleStep(r)
        \/ SanitizeStep(r)
        \/ MetadataStep(r)
        \/ ReturnStep(r)
        \/ Finish(r)

SpecConc == InitConc /\ [][NextConc]_vars

\* the request has a scan under way
Scanning(r) == req[r].pc \in {"structure", "invisible", "sanitize", "metadata", "return"}

\* what the endpoint answers for a document scanned alone
AloneResponse(endpoint, d) ==
    IF ReachesScan(endpoint, d) THEN Response(endpoint, scan_pdf(NewScanner, d).value)
    ELSE NoScanResponse(endpoint)

\* C10: every request has a scanner of its own, and whatever the interleaving
\* of the requests, the flags and booleans a request reports are those of a
\* scan of its own document alone.
C10_NoSharedAccumulator ==
    /\ \A r, o \in Requests :
          (r # o /\ Scanning(r) /\ Scanning(o)) => req[r].self # req[o].self
    /\ \A r \in Requests :
          req[r].pc = "responded" =>
              req[r].response = AloneResponse(req[r].endpoint, req[r].d)

\* a request has answered with flags while another request, for another
\* document, is in the middle of its scan with flags raised on its scanner
C10_Witness ==
    \E r, o \in Requests :
        /\ r # o
        /\ req[r].pc = "responded" /\ req[r].endpoint = "analyze"
        /\ "invisible_text_detected" \in DOMAIN req[r].response
        /\ req[r].response.invisible_text_detected
        /\ req[o].pc = "metadata"
        /\ req[o].d # req[r].d
        /\ heap[req[o].self].security_flags # <<>>

====
